---- MODULE Spec2Model ----
(***************************************************************************)
(* Binance weight exporter.  Two programs share the collector design:      *)
(*   - the scrape-only exporter (main.go), which probes the upstream on    *)
(*     every scrape and keeps nothing between scrapes;                     *)
(*   - the cached exporter (part_000), whose collector caches isUp and     *)
(*     lastWeight and is refreshed either by the scrape itself             *)
(*     (auto-scrape off) or by a fixed-rate background task (auto-scrape   *)
(*     on).                                                                *)
(* Scrapes are served concurrently by the HTTP server, one goroutine per   *)
(* request; every read and write of a collector field is one step, because *)
(* the code guards none of them with a lock.                               *)
(***************************************************************************)
EXTENDS Integers, Sequences, FiniteSets, TLC

\* Bounds of the model: goroutines alive at once (scrape handlers and
\* background runs together), and the largest weight the upstream reports.
MaxTasks == 2
MaxWeight == 1

\* Bounds of the timed model: the last second on the clock, and the longest
\* time (in seconds) the upstream takes to answer a probe it does answer
\* within the run.
MaxTime == 120
MaxLatency == 1

\* The schedule of the background task: ScheduleAtFixedRate(..., 1*time.Minute,
\* WithStartTime(..., now.Minute(), 58)).
Period == 60
AlignSecond == 58

Tasks == 1..MaxTasks

----------------------------------------------------------------------------
\* float64 values: finite naturals and +Inf.
Float(n) == [inf |-> FALSE, n |-> n]
PosInf == [inf |-> TRUE, n |-> 0]

Digits == <<"0", "1", "2", "3", "4", "5", "6", "7", "8", "9">>
IsDigit(c) == \E d \in 0..9 : Digits[d + 1] = c
DigitVal(c) == CHOOSE d \in 0..9 : Digits[d + 1] = c

\* The decimal ASCII text of n, as the upstream writes it into a header.
RECURSIVE Numeral(_)
Numeral(n) ==
    IF n < 10 THEN <<Digits[n + 1]>>
    ELSE Append(Numeral(n \div 10), Digits[(n % 10) + 1])

\* What resp.Header.Get returns for a rate-limit header: "" when the header
\* is absent, else the decimal number the upstream wrote (the probe itself
\* costs weight, so a reported weight is at least 1).
HeaderValues == {<<>>} \cup {Numeral(n) : n \in 1..MaxWeight}

AllDigits(s) == \A i \in 1..Len(s) : IsDigit(s[i])

\* Header texts that are not plain decimal numbers: a word, a number too
\* large for a float64, and the name of a special value.
OddHeaders == {<<"x">>, <<"1", "e", "9", "9", "9">>, <<"I", "n", "f">>}
AllHeaders == HeaderValues \cup OddHeaders

RECURSIVE DigitsValue(_)
DigitsValue(s) ==
    IF s = <<>> THEN 0
    ELSE 10 * DigitsValue(SubSeq(s, 1, Len(s) - 1)) + DigitVal(s[Len(s)])

RECURSIVE Pow10(_)
Pow10(e) == IF e = 0 THEN 1 ELSE 10 * Pow10(e - 1)

\* ParseFloat matches the special values without regard to case.
LowerOf == [c \in {"I", "N", "F", "T", "Y"} |->
              CASE c = "I" -> "i" [] c = "N" -> "n" [] c = "F" -> "f"
                [] c = "T" -> "t" [] c = "Y" -> "y"]
ToLower(s) == [i \in 1..Len(s) |->
                 IF s[i] \in DOMAIN LowerOf THEN LowerOf[s[i]] ELSE s[i]]
InfinityTexts == {<<"i", "n", "f">>,
                  <<"i", "n", "f", "i", "n", "i", "t", "y">>}

\* strconv.ParseFloat(s, 64) with the error discarded (`v, _ :=`): "Inf" and
\* "Infinity" give +Inf, a syntax error gives 0, a range error gives +Inf,
\* otherwise mantissa * 10^exponent.
ParseFloat(s) ==
    LET es == {i \in 1..Len(s) : s[i] = "e"}
        ePos == IF es = {} THEN Len(s) + 1
                ELSE CHOOSE i \in es : \A j \in es : i <= j
        mant == SubSeq(s, 1, ePos - 1)
        expo == SubSeq(s, ePos + 1, Len(s))
        syntaxOk == /\ mant # <<>>
                    /\ AllDigits(mant)
                    /\ es # {} => (expo # <<>> /\ AllDigits(expo))
    IN  IF ToLower(s) \in InfinityTexts THEN PosInf
        ELSE IF ~syntaxOk THEN Float(0)
        ELSE IF DigitsValue(mant) = 0 THEN Float(0)
        ELSE IF DigitsValue(expo) > 308 THEN PosInf
        ELSE Float(DigitsValue(mant) * Pow10(DigitsValue(expo)))

----------------------------------------------------------------------------
\* The outcome of client.Do, (resp, err), as far as the program reads it.
NoResp == [st |-> "none", w |-> <<>>, m |-> <<>>]
ErrResp == [st |-> "err", w |-> <<>>, m |-> <<>>]
OkResp(w, m) == [st |-> "ok", w |-> w, m |-> m]

\* prometheus.MustNewConstMetric(desc, GaugeValue, value) sent on ch.
Metric(name, value) == [name |-> name, value |-> value]

VARIABLES
    program,       \* "scrapeOnly" (main.go) or "cached" (part_000)
    autoScrape,    \* the -auto-scrape flag (cached program)
    endpointOk,    \* whether binanceEndpoint + cheapRequest parses as a URL
    exited,        \* log.Fatal has ended the process
    isUp,          \* WeightCollector.isUp
    lastWeight,    \* WeightCollector.lastWeight
    pc,            \* position of every goroutine
    caller,        \* who started the goroutine: "Collect" or "scheduler"
    resp,          \* what the task's client.Do returned, kept until it responds
    out,           \* metrics the scrape has sent on ch so far
    probeCalls,    \* probes started by the scrape's Collect
    sawWrite,      \* a probe wrote the cache after the scrape began to read it
    lastProbe,     \* outcome of the probe whose response arrived last
    clean,         \* no other probe was between its two writes when lastProbe wrote
    stored,        \* weights stored by successful probes so far
    completed,     \* some probe has run to its end
    now,           \* wall clock, in seconds since the minute the process started in
    nextTrigger,   \* when the scheduler starts the next background run
    startedAt,     \* when the task's probe started
    cacheStart,    \* start time of the probe that wrote the cache last
    cacheDone,     \* time of the last cache write
    lastStart,     \* start time of the latest background run, -1 before the first
    prevStart      \* start time of the background run before that, -1 if none

\* The clock and what is recorded against it.
tvars == <<now, nextTrigger, startedAt, cacheStart, cacheDone, lastStart,
           prevStart>>

vars == <<program, autoScrape, endpointOk, exited, isUp, lastWeight, pc, caller,
          resp, out, probeCalls, sawWrite, lastProbe, clean, stored,
          completed, tvars>>

config == <<program, autoScrape, endpointOk>>

ReadingPcs == {"readUp", "emitWeight", "emitWeight1m", "done"}

\* NewCollector, flag.Parse and os.Getenv: the state when the server starts.
InitCollector ==
    /\ program \in {"scrapeOnly", "cached"}
    /\ autoScrape \in (IF program = "cached" THEN BOOLEAN ELSE {FALSE})
    /\ endpointOk \in (IF program = "cached" THEN {TRUE} ELSE BOOLEAN)
    /\ exited = FALSE
    /\ isUp = 0
    /\ lastWeight = Float(0)
    /\ pc = [t \in Tasks |-> "idle"]
    /\ caller = [t \in Tasks |-> "none"]
    /\ resp = [t \in Tasks |-> NoResp]
    /\ out = [t \in Tasks |-> <<>>]
    /\ probeCalls = [t \in Tasks |-> 0]
    /\ sawWrite = [t \in Tasks |-> FALSE]
    /\ lastProbe = NoResp
    /\ clean = TRUE
    /\ stored = {}
    /\ completed = FALSE

\* The clock is not observed: time stands at 0 and nothing is recorded.
NoClock ==
    /\ now = 0
    /\ nextTrigger = 0
    /\ startedAt = [t \in Tasks |-> 0]
    /\ cacheStart = 0
    /\ cacheDone = 0
    /\ lastStart = -1
    /\ prevStart = -1

Init == InitCollector /\ NoClock

----------------------------------------------------------------------------
\* A new goroutine takes the first free slot (slots are interchangeable).
FreeSlot(t) == pc[t] = "idle" /\ \A s \in Tasks : pc[s] = "idle" => t <= s

\* Some task other than t sits between RequestWeight's two writes.
MidUpdate(t) == \E r \in Tasks \ {t} : pc[r] = "store"

\* Bookkeeping of a cache write: every scrape that is reading has seen it.
NoteWrite ==
    sawWrite' = [p \in Tasks |->
                   IF pc[p] \in ReadingPcs THEN TRUE ELSE sawWrite[p]]

\* RequestWeight returns: Collect goes on to UpdateMetrics, a background run
\* ends (and its locals with it).
Return(t, r) ==
    IF caller[t] = "Collect"
    THEN /\ pc' = [pc EXCEPT ![t] = "readUp"]
         /\ resp' = [resp EXCEPT ![t] = r]
         /\ UNCHANGED caller
    ELSE /\ pc' = [pc EXCEPT ![t] = "idle"]
         /\ resp' = [resp EXCEPT ![t] = NoResp]
         /\ caller' = [caller EXCEPT ![t] = "none"]

----------------------------------------------------------------------------
\* The cached program (part_000).

\* Collect as it would be without the auto-scrape test: it always probes.
CollectIgnoresFlag(p) ==
    /\ program = "cached" /\ ~exited
    /\ FreeSlot(p)
    /\ caller' = [caller EXCEPT ![p] = "Collect"]
    /\ pc' = [pc EXCEPT ![p] = "request"]
    /\ probeCalls' = [probeCalls EXCEPT ![p] = @ + 1]
    /\ UNCHANGED <<config, exited, isUp, lastWeight, resp, out, sawWrite,
                   lastProbe, clean, stored, completed>>

\* Collect: RequestWeight first unless auto-scrape, then UpdateMetrics.
Collect(p) ==
    /\ program = "cached" /\ ~exited
    /\ FreeSlot(p)
    /\ caller' = [caller EXCEPT ![p] = "Collect"]
    /\ IF ~autoScrape
       THEN /\ pc' = [pc EXCEPT ![p] = "request"]
            /\ probeCalls' = [probeCalls EXCEPT ![p] = @ + 1]
       ELSE /\ pc' = [pc EXCEPT ![p] = "readUp"]
            /\ UNCHANGED probeCalls
    /\ UNCHANGED <<config, exited, isUp, lastWeight, resp, out, sawWrite,
                   lastProbe, clean, stored, completed>>

\* The fixed-rate task starts a run of RequestWeight in its own goroutine,
\* whether or not the previous run has returned.
ScheduledRun(b) ==
    /\ program = "cached" /\ ~exited
    /\ autoScrape
    /\ FreeSlot(b)
    /\ caller' = [caller EXCEPT ![b] = "scheduler"]
    /\ pc' = [pc EXCEPT ![b] = "request"]
    /\ UNCHANGED <<config, exited, isUp, lastWeight, resp, out, probeCalls,
                   sawWrite, lastProbe, clean, stored, completed>>

\* The error branch as it would be without `c.isUp = 0`.
ProbeFailForgetsDown(t) ==
    /\ program = "cached" /\ ~exited
    /\ pc[t] = "request"
    /\ isUp' = isUp
    /\ lastProbe' = ErrResp
    /\ clean' = ~MidUpdate(t)
    /\ NoteWrite
    /\ completed' = TRUE
    /\ Return(t, ErrResp)
    /\ UNCHANGED <<config, exited, lastWeight, out, probeCalls, stored>>

\* The error branch as it would be if it also cleared the weight.
ProbeFailResetsWeight(t) ==
    /\ program = "cached" /\ ~exited
    /\ pc[t] = "request"
    /\ isUp' = 0
    /\ lastWeight' = Float(0)
    /\ lastProbe' = ErrResp
    /\ clean' = ~MidUpdate(t)
    /\ NoteWrite
    /\ completed' = TRUE
    /\ Return(t, ErrResp)
    /\ UNCHANGED <<config, exited, out, probeCalls, stored>>

\* RequestWeight, client.Do returns an error: c.isUp = 0; return.
ProbeFail(t) ==
    /\ program = "cached" /\ ~exited
    /\ pc[t] = "request"
    /\ isUp' = 0
    /\ lastProbe' = ErrResp
    /\ clean' = ~MidUpdate(t)
    /\ NoteWrite
    /\ completed' = TRUE
    /\ Return(t, ErrResp)
    /\ UNCHANGED <<config, exited, lastWeight, out, probeCalls, stored>>

\* RequestWeight, client.Do returns a response: c.isUp = 1.
ProbeOk(t, w, m) ==
    /\ program = "cached" /\ ~exited
    /\ pc[t] = "request"
    /\ isUp' = 1
    /\ resp' = [resp EXCEPT ![t] = OkResp(<<>>, m)]
    /\ pc' = [pc EXCEPT ![t] = "store"]
    /\ lastProbe' = OkResp(w, m)
    /\ clean' = ~MidUpdate(t)
    /\ NoteWrite
    /\ UNCHANGED <<config, exited, lastWeight, caller, out, probeCalls,
                   stored, completed>>

\* The store as it would be if a parsed 0 were taken for "no value" and the
\* cached weight kept.
StoreWeightSkipsZero(t) ==
    /\ program = "cached" /\ ~exited
    /\ pc[t] = "store"
    /\ lastWeight' = IF ParseFloat(resp[t].m) = Float(0) THEN lastWeight
                     ELSE ParseFloat(resp[t].m)
    /\ stored' = stored \cup {ParseFloat(resp[t].m)}
    /\ NoteWrite
    /\ completed' = TRUE
    /\ Return(t, resp[t])
    /\ UNCHANGED <<config, exited, isUp, out, probeCalls, lastProbe, clean>>

\* RequestWeight: c.lastWeight, _ = strconv.ParseFloat(1m header, 64); return.
StoreWeight(t) ==
    /\ program = "cached" /\ ~exited
    /\ pc[t] = "store"
    /\ lastWeight' = ParseFloat(resp[t].m)
    /\ stored' = stored \cup {ParseFloat(resp[t].m)}
    /\ NoteWrite
    /\ completed' = TRUE
    /\ Return(t, resp[t])
    /\ UNCHANGED <<config, exited, isUp, out, probeCalls, lastProbe, clean>>

\* The down branch as it would be without its `return`.
ReadIsUpNoReturn(p) ==
    /\ program = "cached" /\ ~exited
    /\ pc[p] = "readUp"
    /\ out' = [out EXCEPT ![p] = Append(@, Metric("up", Float(isUp)))]
    /\ pc' = [pc EXCEPT ![p] = "emitWeight"]
    /\ UNCHANGED <<config, exited, isUp, lastWeight, caller, resp, probeCalls,
                   sawWrite, lastProbe, clean, stored, completed>>

\* UpdateMetrics as it would be if it took a lock that RequestWeight held
\* across client.Do: it reads only when no probe is in flight.
ReadIsUpWaits(p) ==
    /\ program = "cached" /\ ~exited
    /\ pc[p] = "readUp"
    /\ \A t \in Tasks : pc[t] # "request"
    /\ IF isUp = 0
       THEN /\ out' = [out EXCEPT ![p] = Append(@, Metric("up", Float(0)))]
            /\ pc' = [pc EXCEPT ![p] = "done"]
       ELSE /\ out' = [out EXCEPT ![p] = Append(@, Metric("up", Float(1)))]
            /\ pc' = [pc EXCEPT ![p] = "emitWeight"]
    /\ UNCHANGED <<config, exited, isUp, lastWeight, caller, resp, probeCalls,
                   sawWrite, lastProbe, clean, stored, completed>>

\* UpdateMetrics: if c.isUp == 0 { send up 0; return }; send up 1.
ReadIsUp(p) ==
    /\ program = "cached" /\ ~exited
    /\ pc[p] = "readUp"
    /\ IF isUp = 0
       THEN /\ out' = [out EXCEPT ![p] = Append(@, Metric("up", Float(0)))]
            /\ pc' = [pc EXCEPT ![p] = "done"]
       ELSE /\ out' = [out EXCEPT ![p] = Append(@, Metric("up", Float(1)))]
            /\ pc' = [pc EXCEPT ![p] = "emitWeight"]
    /\ UNCHANGED <<config, exited, isUp, lastWeight, caller, resp, probeCalls,
                   sawWrite, lastProbe, clean, stored, completed>>

\* UpdateMetrics: send weight_used with c.lastWeight.
EmitWeightUsed(p) ==
    /\ program = "cached" /\ ~exited
    /\ pc[p] = "emitWeight"
    /\ out' = [out EXCEPT ![p] = Append(@, Metric("weight_used", lastWeight))]
    /\ pc' = [pc EXCEPT ![p] = "emitWeight1m"]
    /\ UNCHANGED <<config, exited, isUp, lastWeight, caller, resp, probeCalls,
                   sawWrite, lastProbe, clean, stored, completed>>

\* The last send as it would be if it cleared the weight once reported.
EmitAndClear(p) ==
    /\ program = "cached" /\ ~exited
    /\ pc[p] = "emitWeight1m"
    /\ out' = [out EXCEPT ![p] = Append(@, Metric("weight_used_1m", lastWeight))]
    /\ pc' = [pc EXCEPT ![p] = "done"]
    /\ lastWeight' = Float(0)
    /\ UNCHANGED <<config, exited, isUp, caller, resp, probeCalls,
                   sawWrite, lastProbe, clean, stored, completed>>

\* UpdateMetrics: send weight_used_1m with c.lastWeight.
EmitWeightUsedMinute(p) ==
    /\ program = "cached" /\ ~exited
    /\ pc[p] = "emitWeight1m"
    /\ out' = [out EXCEPT ![p] = Append(@, Metric("weight_used_1m", lastWeight))]
    /\ pc' = [pc EXCEPT ![p] = "done"]
    /\ UNCHANGED <<config, exited, isUp, lastWeight, caller, resp, probeCalls,
                   sawWrite, lastProbe, clean, stored, completed>>

----------------------------------------------------------------------------
\* The scrape-only program (main.go).

\* Collect -> HitBinanceRestApisAndUpdateMetrics: http.NewRequest succeeds
\* and client.Do is in flight.
MainCollect(p) ==
    /\ program = "scrapeOnly" /\ ~exited
    /\ FreeSlot(p)
    /\ endpointOk
    /\ caller' = [caller EXCEPT ![p] = "Collect"]
    /\ pc' = [pc EXCEPT ![p] = "request"]
    /\ probeCalls' = [probeCalls EXCEPT ![p] = @ + 1]
    /\ UNCHANGED <<config, exited, isUp, lastWeight, resp, out, sawWrite,
                   lastProbe, clean, stored, completed>>

\* http.NewRequest fails: log.Fatal(err) ends the process.
MainFatal(p) ==
    /\ program = "scrapeOnly" /\ ~exited
    /\ FreeSlot(p)
    /\ ~endpointOk
    /\ exited' = TRUE
    /\ UNCHANGED <<config, isUp, lastWeight, pc, caller, resp, out, probeCalls,
                   sawWrite, lastProbe, clean, stored, completed>>

\* What HitBinanceRestApisAndUpdateMetrics sends on ch once client.Do has
\* returned r: up 0 alone on an error; else up 1, weight_used and
\* weight_used_1m parsed from the two headers.
MainGauges(r) ==
    IF r.st = "err"
    THEN <<Metric("up", Float(0))>>
    ELSE <<Metric("up", Float(1)),
           Metric("weight_used", ParseFloat(r.w)),
           Metric("weight_used_1m", ParseFloat(r.m))>>

\* client.Do returns an error: send up 0; return.
MainProbeFail(p) ==
    /\ program = "scrapeOnly" /\ ~exited
    /\ pc[p] = "request"
    /\ resp' = [resp EXCEPT ![p] = ErrResp]
    /\ out' = [out EXCEPT ![p] = @ \o MainGauges(ErrResp)]
    /\ pc' = [pc EXCEPT ![p] = "done"]
    /\ UNCHANGED <<config, exited, isUp, lastWeight, caller, probeCalls,
                   sawWrite, lastProbe, clean, stored, completed>>

\* The success branch as it would be if the collector kept the weight in a
\* field: it sends what the field held and then stores the new value.
MainProbeOkKeepsWeight(p, w, m) ==
    /\ program = "scrapeOnly" /\ ~exited
    /\ pc[p] = "request"
    /\ resp' = [resp EXCEPT ![p] = OkResp(w, m)]
    /\ out' = [out EXCEPT ![p] =
                 @ \o <<Metric("up", Float(1)),
                        Metric("weight_used", lastWeight),
                        Metric("weight_used_1m", lastWeight)>>]
    /\ lastWeight' = ParseFloat(m)
    /\ pc' = [pc EXCEPT ![p] = "done"]
    /\ UNCHANGED <<config, exited, isUp, caller, probeCalls,
                   sawWrite, lastProbe, clean, stored, completed>>

\* client.Do returns a response: send up 1, then weight_used and
\* weight_used_1m parsed from the two headers.
MainProbeOk(p, w, m) ==
    /\ program = "scrapeOnly" /\ ~exited
    /\ pc[p] = "request"
    /\ resp' = [resp EXCEPT ![p] = OkResp(w, m)]
    /\ out' = [out EXCEPT ![p] = @ \o MainGauges(OkResp(w, m))]
    /\ pc' = [pc EXCEPT ![p] = "done"]
    /\ UNCHANGED <<config, exited, isUp, lastWeight, caller, probeCalls,
                   sawWrite, lastProbe, clean, stored, completed>>

----------------------------------------------------------------------------
\* Collect has returned and the metrics response is written: the handler
\* goroutine ends.
Respond(p) ==
    /\ ~exited
    /\ pc[p] = "done"
    /\ pc' = [pc EXCEPT ![p] = "idle"]
    /\ caller' = [caller EXCEPT ![p] = "none"]
    /\ resp' = [resp EXCEPT ![p] = NoResp]
    /\ out' = [out EXCEPT ![p] = <<>>]
    /\ probeCalls' = [probeCalls EXCEPT ![p] = 0]
    /\ sawWrite' = [sawWrite EXCEPT ![p] = FALSE]
    /\ UNCHANGED <<config, exited, isUp, lastWeight, lastProbe, clean, stored, completed>>

\* Every step of the two programs, the clock not observed.
Next ==
    \/ \E p \in Tasks : Collect(p) /\ UNCHANGED tvars
    \/ \E b \in Tasks : ScheduledRun(b) /\ UNCHANGED tvars
    \/ \E t \in Tasks : ProbeFail(t) /\ UNCHANGED tvars
    \/ \E t \in Tasks, w \in HeaderValues, m \in HeaderValues :
          ProbeOk(t, w, m) /\ UNCHANGED tvars
    \/ \E t \in Tasks : StoreWeight(t) /\ UNCHANGED tvars
    \/ \E p \in Tasks : ReadIsUp(p) /\ UNCHANGED tvars
    \/ \E p \in Tasks : EmitWeightUsed(p) /\ UNCHANGED tvars
    \/ \E p \in Tasks : EmitWeightUsedMinute(p) /\ UNCHANGED tvars
    \/ \E p \in Tasks : MainCollect(p) /\ UNCHANGED tvars
    \/ \E p \in Tasks : MainFatal(p) /\ UNCHANGED tvars
    \/ \E p \in Tasks, w \in HeaderValues, m \in HeaderValues :
          MainProbeOk(p, w, m) /\ UNCHANGED tvars
    \/ \E p \in Tasks : MainProbeFail(p) /\ UNCHANGED tvars
    \/ \E p \in Tasks : Respond(p) /\ UNCHANGED tvars

Spec == Init /\ [][Next]_vars

----------------------------------------------------------------------------
\* The cached program with auto-scrape on, against the wall clock.

\* main, lines 146-150: the process starts at second startSec of a minute
\* and asks for the first run at second 58 of that minute.  A start time
\* still ahead is waited for; one already past gives an initial delay of 0,
\* so the first run starts at once.
FirstTrigger(startSec) ==
    IF startSec <= AlignSecond THEN AlignSecond ELSE startSec

InitTimed ==
    /\ InitCollector
    /\ program = "cached" /\ autoScrape
    /\ \E startSec \in 0..59 :
          /\ now = startSec
          /\ nextTrigger = FirstTrigger(startSec)
    /\ startedAt = [t \in Tasks |-> 0]
    /\ cacheStart = 0
    /\ cacheDone = 0
    /\ lastStart = -1
    /\ prevStart = -1

\* A background probe the upstream has not answered yet.
InFlight(t) == caller[t] = "scheduler" /\ pc[t] = "request"

\* One second passes.  The scheduler starts a due run on time, the upstream
\* answers within MaxLatency, and the steps of a goroutine other than the
\* wait for the upstream take no time on this clock.
Tick ==
    /\ now < MaxTime
    /\ now < nextTrigger
    /\ \A t \in Tasks : InFlight(t) => now - startedAt[t] < MaxLatency
    /\ \A t \in Tasks : pc[t] = "idle" \/ InFlight(t)
    /\ now' = now + 1
    /\ UNCHANGED <<config, exited, isUp, lastWeight, pc, caller, resp, out,
                   probeCalls, sawWrite, lastProbe, clean, stored, completed,
                   nextTrigger, startedAt, cacheStart, cacheDone, lastStart,
                   prevStart>>

\* The fixed-rate task fires: a run starts now, the next is due one period
\* later.
TimedScheduledRun(b) ==
    /\ now = nextTrigger
    /\ ScheduledRun(b)
    /\ nextTrigger' = nextTrigger + Period
    /\ startedAt' = [startedAt EXCEPT ![b] = now]
    /\ prevStart' = lastStart
    /\ lastStart' = now
    /\ UNCHANGED <<now, cacheStart, cacheDone>>

\* A probe writes the cache: the observation served from now on is its own.
CacheWrittenBy(t) ==
    /\ cacheStart' = startedAt[t]
    /\ cacheDone' = now

TimedProbeFail(t) ==
    /\ ProbeFail(t)
    /\ CacheWrittenBy(t)
    /\ startedAt' = [startedAt EXCEPT ![t] = 0]
    /\ UNCHANGED <<now, nextTrigger, lastStart, prevStart>>

TimedProbeOk(t, w, m) ==
    /\ ProbeOk(t, w, m)
    /\ CacheWrittenBy(t)
    /\ UNCHANGED <<now, nextTrigger, startedAt, lastStart, prevStart>>

TimedStoreWeight(t) ==
    /\ StoreWeight(t)
    /\ CacheWrittenBy(t)
    /\ startedAt' = [startedAt EXCEPT ![t] = 0]
    /\ UNCHANGED <<now, nextTrigger, lastStart, prevStart>>

NextTimed ==
    \/ Tick
    \/ \E b \in Tasks : TimedScheduledRun(b)
    \/ \E t \in Tasks : TimedProbeFail(t)
    \/ \E t \in Tasks, m \in HeaderValues : TimedProbeOk(t, m, m)
    \/ \E t \in Tasks : TimedStoreWeight(t)
    \/ \E p \in Tasks : Collect(p) /\ UNCHANGED tvars
    \/ \E p \in Tasks : ReadIsUp(p) /\ UNCHANGED tvars
    \/ \E p \in Tasks : EmitWeightUsed(p) /\ UNCHANGED tvars
    \/ \E p \in Tasks : EmitWeightUsedMinute(p) /\ UNCHANGED tvars
    \/ \E p \in Tasks : Respond(p) /\ UNCHANGED tvars

SpecTimed == InitTimed /\ [][NextTimed]_vars

----------------------------------------------------------------------------
\* Scrapes served one at a time: a single goroutine slot, so a scrape or a
\* background run starts only when the one before has ended.  The upstream
\* may send any header text.
NextSeq ==
    \/ Collect(1) /\ UNCHANGED tvars
    \/ ScheduledRun(1) /\ UNCHANGED tvars
    \/ ProbeFail(1) /\ UNCHANGED tvars
    \/ \E w \in AllHeaders, m \in AllHeaders :
          ProbeOk(1, w, m) /\ UNCHANGED tvars
    \/ StoreWeight(1) /\ UNCHANGED tvars
    \/ ReadIsUp(1) /\ UNCHANGED tvars
    \/ EmitWeightUsed(1) /\ UNCHANGED tvars
    \/ EmitWeightUsedMinute(1) /\ UNCHANGED tvars
    \/ MainCollect(1) /\ UNCHANGED tvars
    \/ MainFatal(1) /\ UNCHANGED tvars
    \/ \E w \in AllHeaders, m \in AllHeaders :
          MainProbeOk(1, w, m) /\ UNCHANGED tvars
    \/ MainProbeFail(1) /\ UNCHANGED tvars
    \/ Respond(1) /\ UNCHANGED tvars

SpecSeq == Init /\ [][NextSeq]_vars

----------------------------------------------------------------------------
\* Progress.  The Go scheduler runs every goroutine that can take a step, so
\* each step of the program's own code is taken eventually.  What client.Do
\* returns, and whether it returns, is up to the upstream: the client is
\* built without a Timeout (http.Client{Transport: tr}), so no step of the
\* program ends a call the upstream leaves unanswered.
OwnStep(t) ==
    /\ \/ StoreWeight(t)
       \/ ReadIsUp(t)
       \/ EmitWeightUsed(t)
       \/ EmitWeightUsedMinute(t)
       \/ Respond(t)
    /\ UNCHANGED tvars

SpecLive == Init /\ [][Next]_vars /\ \A t \in Tasks : WF_vars(OwnStep(t))

----------------------------------------------------------------------------
\* Vocabulary of the properties.

\* The gauges of one scrape.
UpOnly == <<Metric("up", Float(0))>>
Gauges(w, m) ==
    <<Metric("up", Float(1)), Metric("weight_used", w),
      Metric("weight_used_1m", m)>>

\* The number a header stands for: the decimal it spells, 0 when absent.
Expected(h) ==
    IF h = <<>> THEN Float(0)
    ELSE Float(CHOOSE n \in 0..MaxWeight : Numeral(n) = h)

\* The cache holds exactly what lastProbe wrote: no probe is between its two
\* writes and none was when lastProbe wrote.
Quiet == clean /\ \A r \in Tasks : pc[r] # "store"

\* Scrape p has finished, and it is the next scrape after lastProbe with no
\* other probe in between.
NextAfterLastProbe(p) == pc[p] = "done" /\ ~sawWrite[p] /\ Quiet

\* C1: after a successful probe with headers W and M, the next scrape (no
\* other probe in between) emits up=1, weight_used=W and weight_used_1m=M,
\* in the scrape-only program and in the cached program in both modes.
C1_NextScrapeEmitsBothHeaders ==
    \A p \in Tasks :
        /\ (program = "scrapeOnly" /\ pc[p] = "done" /\ resp[p].st = "ok")
              => out[p] = Gauges(Expected(resp[p].w), Expected(resp[p].m))
        /\ (program = "cached" /\ NextAfterLastProbe(p) /\ lastProbe.st = "ok")
              => out[p] = Gauges(Expected(lastProbe.w), Expected(lastProbe.m))

\* C2: after a probe that failed at transport level, the next scrape (no
\* other probe in between) emits up=0 and no weight gauge, whatever weight
\* is cached.
C2_FailedProbeScrapeUpOnly ==
    \A p \in Tasks :
        /\ (program = "scrapeOnly" /\ pc[p] = "done" /\ resp[p].st = "err")
              => out[p] = UpOnly
        /\ (program = "cached" /\ NextAfterLastProbe(p) /\ lastProbe.st = "err")
              => out[p] = UpOnly

\* A scrape answered up=0 alone after a failed probe while a non-zero weight
\* from an earlier successful probe is still cached.
C2_Witness ==
    \E p \in Tasks :
        /\ program = "cached" /\ NextAfterLastProbe(p) /\ lastProbe.st = "err"
        /\ lastWeight # Float(0)
        /\ out[p] = UpOnly

\* The step in which task t's probe fails: RequestWeight leaves client.Do
\* without going on to the weight store.
FailStep(t) ==
    /\ program = "cached"
    /\ pc[t] = "request"
    /\ pc'[t] \notin {"request", "store"}

\* C3: a failed probe changes only the reachability flag, to false: the
\* cached weight is the same before and after it; and the cached weight is 0
\* only while no probe has stored a weight or when a successful probe stored
\* 0.
C3_FailedProbeKeepsWeight ==
    /\ [][\A t \in Tasks :
             FailStep(t) => (isUp' = 0 /\ lastWeight' = lastWeight)]_vars
    /\ [](lastWeight = Float(0) => (stored = {} \/ Float(0) \in stored))

\* A failed probe has just left a non-zero cached weight in place.
C3_Witness ==
    /\ program = "cached" /\ Quiet
    /\ lastProbe.st = "err" /\ isUp = 0
    /\ lastWeight # Float(0)
    /\ Float(0) \notin stored

\* C4: with auto-scrape off, every scrape returns the gauges of the probe it
\* made itself: up=1 with that probe's 1m value if it succeeded, up=0 alone
\* if it failed, for every interleaving of concurrent scrapes.
C4_ScrapeReflectsOwnProbe ==
    \A p \in Tasks :
        (program = "cached" /\ ~autoScrape /\ pc[p] = "done") =>
            /\ resp[p].st = "ok" =>
                  /\ Len(out[p]) = 3
                  /\ out[p][1] = Metric("up", Float(1))
                  /\ out[p][3] = Metric("weight_used_1m", Expected(resp[p].m))
            /\ resp[p].st = "err" => out[p] = UpOnly

\* The weights that belong to a whole observation with reachable=true: those
\* stored by a successful probe, and those a probe in mid-update is about to
\* store.
WholeWeights ==
    stored \cup {Expected(resp[t].m) : t \in {r \in Tasks : pc[r] = "store"}}

\* C5: the cached observation is updated as one unit: a scrape never reports
\* reachable=true together with a weight that belongs to no observation
\* with reachable=true (an older probe's, or the initial 0).
C5_NoTornObservation ==
    \A p \in Tasks :
        (program = "cached" /\ pc[p] = "done" /\ Len(out[p]) = 3) =>
            /\ out[p][2].value = out[p][3].value
            /\ out[p][2].value \in WholeWeights

\* C6: at most one execution of RequestWeight is between its first and its
\* last write to the cache.
C6_SingleWriter == Cardinality({t \in Tasks : pc[t] = "store"}) <= 1

\* C7: who starts a probe is fixed by the mode: with auto-scrape on, Collect
\* never probes and every probe belongs to the background task; with
\* auto-scrape off there is no background run and every Collect has probed
\* exactly once, whatever the outcome, before it reads the cache.
C7_ProbeInvokerFixedByMode ==
    program = "cached" =>
        \A t \in Tasks :
            /\ autoScrape =>
                  /\ caller[t] = "Collect" =>
                        (probeCalls[t] = 0 /\ pc[t] \notin {"request", "store"})
                  /\ pc[t] \in {"request", "store"} => caller[t] = "scheduler"
            /\ ~autoScrape =>
                  /\ caller[t] # "scheduler"
                  /\ probeCalls[t] <= 1
                  /\ pc[t] \in ReadingPcs => probeCalls[t] = 1

\* With auto-scrape on, a scrape has answered without probing while a
\* background probe is in flight.
C7_Witness ==
    /\ program = "cached" /\ autoScrape
    /\ \E p \in Tasks, b \in Tasks :
          /\ caller[p] = "Collect" /\ pc[p] = "done" /\ probeCalls[p] = 0
          /\ caller[b] = "scheduler" /\ pc[b] = "request"

\* C8: before any probe has completed, a scrape yields up=0 and no weight
\* gauge.
C8_UpZeroBeforeFirstProbe ==
    \A p \in Tasks :
        (program = "cached" /\ pc[p] = "done" /\ ~completed) => out[p] = UpOnly

\* C9: every scrape emits up exactly once and first, 0 when the observation
\* it reports is unreachable and 1 otherwise; with up=0 nothing follows, with
\* up=1 exactly weight_used and weight_used_1m follow, once each.
C9_ScrapeShape ==
    \A p \in Tasks :
        /\ \A i \in 1..Len(out[p]) : (out[p][i].name = "up") <=> (i = 1)
        /\ pc[p] = "done" =>
              \/ out[p] = UpOnly
              \/ /\ Len(out[p]) = 3
                 /\ out[p][1] = Metric("up", Float(1))
                 /\ out[p][2].name = "weight_used"
                 /\ out[p][3].name = "weight_used_1m"
        /\ (pc[p] = "done" /\ program = "scrapeOnly") =>
              (out[p] = UpOnly <=> resp[p].st = "err")
        /\ (pc[p] = "done" /\ program = "cached" /\ ~sawWrite[p]) =>
              (out[p] = UpOnly <=> isUp = 0)

\* Two finished scrapes side by side, one with up=0 alone after a failed
\* probe and one with the three gauges.
C9_Witness ==
    \E p \in Tasks, q \in Tasks :
        /\ pc[p] = "done" /\ out[p] = UpOnly
        /\ pc[q] = "done" /\ Len(out[q]) = 3

\* A step of the scrape in slot t.
ScrapeStep(t) ==
    /\ caller[t] = "Collect" \/ caller'[t] = "Collect"
    /\ pc'[t] # pc[t]

\* C10: with auto-scrape on, two scrapes with no probe write between them
\* emit identical gauges, and a scrape leaves the cached observation as it
\* was.
C10_AsyncScrapesIdempotent ==
    /\ [](\A p \in Tasks, q \in Tasks :
            (/\ program = "cached" /\ autoScrape
             /\ pc[p] = "done" /\ ~sawWrite[p]
             /\ pc[q] = "done" /\ ~sawWrite[q]) => out[p] = out[q])
    /\ [][\A t \in Tasks :
            (program = "cached" /\ autoScrape /\ ScrapeStep(t))
                => UNCHANGED <<isUp, lastWeight>>]_vars

\* Two scrapes have both reported the weight a background probe stored, with
\* no probe write since the first of them began.
C10_Witness ==
    /\ program = "cached" /\ autoScrape
    /\ \E p \in Tasks, q \in Tasks :
          /\ p # q
          /\ pc[p] = "done" /\ ~sawWrite[p]
          /\ pc[q] = "done" /\ ~sawWrite[q]
          /\ out[p] = Gauges(Float(1), Float(1))
          /\ out[q] = out[p]

----------------------------------------------------------------------------
\* C11: no probe outcome ends the process or fails the scrape: whatever the
\* probes met (a request that cannot be built, a transport error), the
\* process is still running, and a scrape that has returned has sent at
\* least the up gauge.
C11_ProbeNeverEndsProcess ==
    /\ ~exited
    /\ \A p \in Tasks : pc[p] = "done" => Len(out[p]) >= 1

\* C12: in asynchronous mode, once a background probe has completed, the
\* observation a scrape is served was written by a probe that started at
\* most one period plus that probe's own latency before the scrape.
C12_StalenessBound ==
    \A p \in Tasks :
        (program = "cached" /\ autoScrape /\ completed /\ pc[p] = "readUp")
            => now - cacheStart <= Period + (cacheDone - cacheStart)

\* C17: every background probe starts at second 58 of a minute, and
\* consecutive starts are exactly one period apart, whatever second the
\* process started at.
C17_ProbesStartAtSecond58 ==
    /\ lastStart # -1 => lastStart % 60 = AlignSecond
    /\ prevStart # -1 => lastStart - prevStart = Period

\* C13: in asynchronous mode a scrape never waits for a probe: from Collect
\* on it is at a step of UpdateMetrics, and that step can be taken at once,
\* whatever the background probes are doing and whether or not they ever
\* return.
C13_AsyncScrapeNeverWaits ==
    \A p \in Tasks :
        (program = "cached" /\ autoScrape /\ caller[p] = "Collect"
            /\ pc[p] # "done")
        => /\ pc[p] \in {"readUp", "emitWeight", "emitWeight1m"}
           /\ ENABLED (\/ ReadIsUp(p)
                       \/ EmitWeightUsed(p)
                       \/ EmitWeightUsedMinute(p))

\* A scrape has sent two of its gauges while a background probe that no one
\* has answered is in flight.
C13_Witness ==
    /\ program = "cached" /\ autoScrape
    /\ \E p \in Tasks, b \in Tasks :
          /\ caller[p] = "Collect" /\ pc[p] = "emitWeight1m"
          /\ Len(out[p]) = 2
          /\ InFlight(b)

\* C14: in synchronous mode (the scrape-only program, or the cached program
\* with auto-scrape off) every Collect whose probe is in flight goes on to
\* emit the up gauge.
C14_SyncScrapeAlwaysAnswers ==
    \A p \in Tasks :
        ((program = "scrapeOnly" \/ ~autoScrape)
            /\ caller[p] = "Collect" /\ pc[p] = "request")
        ~> (Len(out[p]) >= 1)

\* C15: the reachability state is set by probe completions alone: when a
\* probe has just returned and no other probe has written since, the state
\* is UP exactly when that probe got a response and DOWN exactly when it
\* got a transport error; in the scrape-only program the up gauge says the
\* same of the scrape's own probe.  Once a probe has completed the state is
\* UP or DOWN, never the initial state again.
C15_StateFollowsLastProbe ==
    /\ \A p \in Tasks :
          (program = "cached" /\ ~autoScrape /\ pc[p] = "readUp"
              /\ ~sawWrite[p])
          => (isUp = 1 <=> resp[p].st = "ok")
    /\ \A p \in Tasks :
          (program = "scrapeOnly" /\ pc[p] = "done")
          => (out[p][1] = Metric("up", Float(1)) <=> resp[p].st = "ok")
    /\ completed => lastProbe # NoResp

\* C18: in the cached program a scrape that emits weight gauges emits the
\* same value for weight_used and weight_used_1m, a value parsed from an
\* x-mbx-used-weight-1m header (or the initial 0).
C18_WeightGaugesAlike ==
    \A p \in Tasks :
        (program = "cached" /\ Len(out[p]) = 3)
        => /\ out[p][2].value = out[p][3].value
           /\ out[p][3].value \in stored \cup {Float(0)}

\* C19: the scrape-only program keeps no observation: its collector has no
\* field a probe writes, and two scrapes whose probes had the same outcome
\* have emitted the same gauges, whatever else ran before or beside them.
C19_ScrapeOnlyKeepsNothing ==
    program = "scrapeOnly" =>
        /\ isUp = 0 /\ lastWeight = Float(0)
        /\ \A p \in Tasks, q \in Tasks :
              (pc[p] = "done" /\ pc[q] = "done" /\ resp[p] = resp[q])
              => out[p] = out[q]
        /\ \A p \in Tasks : pc[p] = "done" => out[p] = MainGauges(resp[p])

\* Two scrapes that ran side by side, their probes answered alike with a
\* non-zero weight, have both returned.
C19_Witness ==
    /\ program = "scrapeOnly"
    /\ \E p \in Tasks, q \in Tasks :
          /\ p # q
          /\ pc[p] = "done" /\ pc[q] = "done"
          /\ resp[p] = OkResp(<<"1">>, <<"1">>)
          /\ resp[q] = resp[p]

\* A header text that is a decimal number: one or more digits.
IsDecimal(h) == h # <<>> /\ AllDigits(h)

\* C16: a successful probe whose rate-limit header is absent or is not a
\* decimal number stores 0 for that weight and still counts as reachable:
\* the next scrape emits up=1 and 0 for that weight gauge.
C16_BadHeaderStoresZero ==
    /\ \A p \in Tasks :
          (program = "cached" /\ NextAfterLastProbe(p)
              /\ lastProbe.st = "ok" /\ ~IsDecimal(lastProbe.m))
          => /\ lastWeight = Float(0)
             /\ out[p] = Gauges(Float(0), Float(0))
    /\ \A p \in Tasks :
          (program = "scrapeOnly" /\ pc[p] = "done" /\ resp[p].st = "ok")
          => /\ Len(out[p]) = 3
             /\ out[p][1] = Metric("up", Float(1))
             /\ ~IsDecimal(resp[p].w) => out[p][2].value = Float(0)
             /\ ~IsDecimal(resp[p].m) => out[p][3].value = Float(0)

\* C20: with auto-scrape off and scrapes served one at a time, a scrape of
\* the cached program emits what the scrape-only program emits for the same
\* probe outcome: the same series in the same order, the same up value and
\* the same weight_used_1m value.
C20_CachedAgreesWithScrapeOnly ==
    \A p \in Tasks :
        (program = "cached" /\ ~autoScrape /\ pc[p] = "done")
        => LET g == MainGauges(resp[p])
           IN  /\ Len(out[p]) = Len(g)
               /\ \A i \in 1..Len(g) : out[p][i].name = g[i].name
               /\ out[p][1].value = g[1].value
               /\ Len(g) = 3 => out[p][3].value = g[3].value

\* A scrape whose probe found no 1m header has reported 0, after an earlier
\* probe had stored a weight of 1.
C20_Witness ==
    /\ program = "cached" /\ ~autoScrape
    /\ \E p \in Tasks :
          /\ pc[p] = "done"
          /\ resp[p] = OkResp(<<>>, <<>>)
          /\ Float(1) \in stored
          /\ out[p] = Gauges(Float(0), Float(0))


====
